---- MODULE Spec2Model ----
(***************************************************************************)
(* Inactivity tracker: the record engine (InactivityService), the group    *)
(* settings (ConfigService) and the JSON file storage (JsonStorage), with  *)
(* the bot handlers that call them.                                        *)
(*                                                                         *)
(* Timestamps and durations are floats in the program; here they are       *)
(* integers (whole seconds).  The wall-clock "timestamp" field of a        *)
(* history entry (time.time()) is not modelled: no operation reads it.     *)
(***************************************************************************)
EXTENDS Integers, Sequences, FiniteSets, TLC

\* ------------------------------------------------------------ inputs
Groups == {1, 2}
\* the groups whose updates Spec delivers
Tracked == {1}
Users == { [id |-> 1, name |-> "Ann"],
           [id |-> 2, name |-> "Bob"] }
Timestamps == {0, 60, 120}
\* the <minutes> argument of /seed (0 is refused by the handler)
SeedArgs == {0, 1, 2}
\* longest history explored, counted over all groups
MaxHistory == 2
\* the updates the event loop can hold at once
TaskIds == {1, 2}

SecondsPerMinute == 60

\* ------------------------------------------------------------ values
\* Optional[x]: None is the empty set, a value x is {x}.
None == {}
Some(x) == {x}
Get(o) == CHOOSE x \in o : TRUE

\* str(n) for the identifiers used as JSON object keys
Str(n) == CASE n = 1 -> "1" [] n = 2 -> "2" [] OTHER -> "?"

EmptyDict == [k \in {} |-> 0]

VARIABLES
    data,       \* JsonStorage.data["groups"]: group id string -> group data
    disk,       \* the "groups" object of the JSON file db.json
    writable,   \* whether opening db.json for writing succeeds
    call,       \* the handler invocation processed last
    outcome,    \* what that invocation's service call did, and the reply sent
    pc,         \* position inside update_inactivity ("idle": no call running)
    loc,        \* locals of the running update_inactivity call
    before,     \* history variable: the file as it was when the running call began
    fileState,  \* what opening and reading db.json meets (FileStates)
    tasks,      \* the handle_message coroutines of the event loop, by update
    running     \* the coroutine the event loop is running (0: none)

vars == <<data, disk, writable, call, outcome, pc, loc, before, fileState, tasks, running>>

\* ------------------------------------------------------------ JsonStorage
\* The methods class JsonStorage defines (StorageInterface adds none).
StorageMethods ==
    { "_load_data", "_save_data", "_get_group_data",
      "get_record", "set_record",
      "get_last_message_timestamp", "set_last_message_timestamp",
      "get_last_user_info", "set_last_user_info",
      "get_group_config", "set_group_config",
      "get_leaderboard", "update_leaderboard",
      "get_history", "add_to_history" }

\* self.storage.<m>: "" when the attribute exists, else the exception raised
Lookup(m) == IF m \in StorageMethods THEN "" ELSE "AttributeError"

\* variant: a new group starts with announcements disabled
DefaultGroupDataMuted ==
    [ record_seconds         |-> Some(0),
      last_message_timestamp |-> None,
      last_user_info         |-> None,
      leaderboards           |-> [last_word |-> EmptyDict, silence_breaker |-> EmptyDict],
      history                |-> << >>,
      config                 |-> [announce_records |-> FALSE] ]

\* the entry _get_group_data creates for a group it has not seen
DefaultGroupData ==
    [ record_seconds         |-> Some(0),
      last_message_timestamp |-> None,
      last_user_info         |-> None,
      leaderboards           |-> [last_word |-> EmptyDict, silence_breaker |-> EmptyDict],
      history                |-> << >>,
      config                 |-> [announce_records |-> TRUE] ]

\* What _load_data can meet: a well-formed file, no file, a file that cannot be
\* opened, text that is not JSON, bytes that are not text.
FileStates == { "ok", "missing", "unreadable", "invalid_json", "undecodable" }

\* _load_data: no file gives {"groups": {}}; JSONDecodeError and IOError are
\* caught and give {"groups": {}}; the UnicodeDecodeError of f.read() is neither
LoadData(cond, file) ==
    CASE cond = "missing" -> [raised |-> "", data |-> EmptyDict]
      [] cond \in {"unreadable", "invalid_json"} -> [raised |-> "", data |-> EmptyDict]
      [] cond = "undecodable" -> [raised |-> "UnicodeDecodeError", data |-> EmptyDict]
      [] OTHER -> [raised |-> "", data |-> file]

\* _save_data: json.dump of the whole dataset; an IOError is printed and swallowed
SaveData(mem, file) == IF writable THEN mem ELSE file

\* _get_group_data: the memory after the lazy creation of the group's entry
GetGroupData(mem, g) ==
    IF Str(g) \in DOMAIN mem
    THEN mem
    ELSE [k \in DOMAIN mem \cup {Str(g)} |->
            IF k = Str(g) THEN DefaultGroupData ELSE mem[k]]

\* a storage state is [data, disk, cond]: the memory, the file's content and the
\* file's condition; a write that succeeds leaves a well-formed file
Saved(mem, st) ==
    [ data |-> mem,
      disk |-> SaveData(mem, st.disk),
      cond |-> IF writable THEN "ok" ELSE st.cond ]

Touch(st, g) == [st EXCEPT !.data = GetGroupData(st.data, g)]

GetRecord(st, g) == GetGroupData(st.data, g)[Str(g)].record_seconds

\* variant: the record of every group in memory is set
SetRecordEveryGroup(st, g, seconds) ==
    LET mem == GetGroupData(st.data, g)
    IN Saved([k \in DOMAIN mem |-> [mem[k] EXCEPT !.record_seconds = Some(seconds)]], st)

SetRecord(st, g, seconds) ==
    Saved([GetGroupData(st.data, g) EXCEPT ![Str(g)].record_seconds = Some(seconds)], st)

GetLastMessageTimestamp(st, g) == GetGroupData(st.data, g)[Str(g)].last_message_timestamp

\* variant: the stored timestamp only ever moves forward
SetLastMessageTimestampForward(st, g, t) ==
    LET mem == GetGroupData(st.data, g)
        old == mem[Str(g)].last_message_timestamp
    IN Saved([mem EXCEPT ![Str(g)].last_message_timestamp =
                  IF old # None /\ Get(old) > t THEN old ELSE Some(t)], st)

SetLastMessageTimestamp(st, g, t) ==
    Saved([GetGroupData(st.data, g) EXCEPT ![Str(g)].last_message_timestamp = Some(t)], st)

GetLastUserInfo(st, g) == GetGroupData(st.data, g)[Str(g)].last_user_info

SetLastUserInfo(st, g, u) ==
    Saved([GetGroupData(st.data, g) EXCEPT ![Str(g)].last_user_info = Some(u)], st)

GetGroupConfig(st, g) == GetGroupData(st.data, g)[Str(g)].config

SetGroupConfig(st, g, config) ==
    Saved([GetGroupData(st.data, g) EXCEPT ![Str(g)].config = config], st)

GetLeaderboard(st, g) == GetGroupData(st.data, g)[Str(g)].leaderboards

\* the score a board holds for a user id (0 when the id has no entry)
Score(board, id) == IF Str(id) \in DOMAIN board THEN board[Str(id)].score ELSE 0

\* variant: the entry is written afresh on every update
BoardAfterOverwrite(board, id, name) ==
    [k \in DOMAIN board \cup {Str(id)} |->
        IF k = Str(id) THEN [name |-> name, score |-> 1] ELSE board[k]]

\* variant: an existing entry keeps the name it was created with
BoardAfterKeepName(board, id, name) ==
    [k \in DOMAIN board \cup {Str(id)} |->
        IF k = Str(id)
        THEN [name |-> IF Str(id) \in DOMAIN board THEN board[Str(id)].name ELSE name,
              score |-> Score(board, id) + 1]
        ELSE board[k]]

\* update_leaderboard on one board: the entry is created with score 0 when it
\* is missing, its score grows by 1 and its name becomes the name passed
BoardAfter(board, id, name) ==
    [k \in DOMAIN board \cup {Str(id)} |->
        IF k = Str(id) THEN [name |-> name, score |-> Score(board, id) + 1]
        ELSE board[k]]

\* variant: only the silence_breaker board is kept
UpdateLeaderboardBreakerOnly(st, g, id, name, b) ==
    IF b = "silence_breaker"
    THEN Saved([GetGroupData(st.data, g) EXCEPT
                   ![Str(g)].leaderboards[b] = BoardAfter(@, id, name)], st)
    ELSE Saved(GetGroupData(st.data, g), st)

UpdateLeaderboard(st, g, id, name, b) ==
    Saved([GetGroupData(st.data, g) EXCEPT
              ![Str(g)].leaderboards[b] = BoardAfter(@, id, name)], st)

GetHistory(st, g) == GetGroupData(st.data, g)[Str(g)].history

\* variant: the newest entry first
AddToHistoryFront(st, g, entry) ==
    Saved([GetGroupData(st.data, g) EXCEPT ![Str(g)].history = << entry >> \o @], st)

AddToHistory(st, g, entry) ==
    Saved([GetGroupData(st.data, g) EXCEPT ![Str(g)].history = Append(@, entry)], st)

\* ------------------------------------------------------------ InactivityService
\* What a service call did: the exception it raised ("" for none), whether it
\* returned, and the returned value as a tuple (Python's None is << >>).
Raised(e) == [raised |-> e, returned |-> FALSE, value |-> << >>]
Returned(v) == [raised |-> "", returned |-> TRUE, value |-> v]
Running == [raised |-> "", returned |-> FALSE, value |-> << >>]

\* self.storage.save(): the attribute lookup comes first
StorageSave(st) == Lookup("save")

\* variants of the test of line 45
IsNewRecordReversed(interval, current_record) ==
    current_record = None \/ interval < Get(current_record)
IsNewRecordAlways(interval, current_record) == TRUE

\* variant: a tie breaks the record too
IsNewRecordOrEqual(interval, current_record) ==
    current_record = None \/ interval >= Get(current_record)

\* the test of line 45
IsNewRecord(interval, current_record) ==
    current_record = None \/ interval > Get(current_record)

\* A frame of update_inactivity: the storage state, the position, the locals and
\* the way the call ended.
Frame(st, g, t, u) ==
    [ st  |-> st,
      pc  |-> "read",
      loc |-> [ group_id |-> g, current_timestamp |-> t, user_info |-> u,
                last_timestamp |-> None, last_user_info |-> None,
                interval |-> None ],
      end |-> Running ]

\* "return v" after self.storage.save()
SaveAndReturn(fr, v) ==
    [fr EXCEPT !.pc = "done",
               !.end = IF StorageSave(fr.st) = "" THEN Returned(v)
                       ELSE Raised(StorageSave(fr.st))]

\* One statement of update_inactivity that touches the storage.
Step(fr) ==
    LET g == fr.loc.group_id
        l == fr.loc
    IN CASE fr.pc = "read" ->
              [fr EXCEPT !.st = Touch(fr.st, g),
                         !.loc.last_timestamp = GetLastMessageTimestamp(fr.st, g),
                         !.loc.last_user_info = GetLastUserInfo(fr.st, g),
                         !.pc = "set_timestamp"]
         [] fr.pc = "set_timestamp" ->
              [fr EXCEPT !.st = SetLastMessageTimestamp(fr.st, g, l.current_timestamp),
                         !.pc = "set_user"]
         [] fr.pc = "set_user" ->
              [fr EXCEPT !.st = SetLastUserInfo(fr.st, g, l.user_info),
                         !.pc = IF l.last_timestamp = None \/ l.last_user_info = None
                                THEN "save_first" ELSE "compare"]
         [] fr.pc = "save_first" -> SaveAndReturn(fr, << >>)
         [] fr.pc = "compare" ->
              LET interval == l.current_timestamp - Get(l.last_timestamp)
              IN [fr EXCEPT !.loc.interval = Some(interval),
                            !.pc = IF IsNewRecord(interval, GetRecord(fr.st, g))
                                   THEN "set_record" ELSE "save_no_record"]
         [] fr.pc = "set_record" ->
              [fr EXCEPT !.st = SetRecord(fr.st, g, Get(l.interval)),
                         !.pc = "last_word"]
         [] fr.pc = "last_word" ->
              [fr EXCEPT !.st = UpdateLeaderboard(fr.st, g, Get(l.last_user_info).id,
                                                  Get(l.last_user_info).name, "last_word"),
                         !.pc = "silence_breaker"]
         [] fr.pc = "silence_breaker" ->
              [fr EXCEPT !.st = UpdateLeaderboard(fr.st, g, l.user_info.id,
                                                  l.user_info.name, "silence_breaker"),
                         !.pc = "history"]
         [] fr.pc = "history" ->
              [fr EXCEPT !.st = AddToHistory(fr.st, g,
                                    [ record_seconds |-> Get(l.interval),
                                      last_user      |-> Get(l.last_user_info),
                                      breaker_user   |-> l.user_info ]),
                         !.pc = "save_record"]
         [] fr.pc = "save_record" ->
              SaveAndReturn(fr, << Get(l.interval), Get(l.last_user_info) >>)
         [] fr.pc = "save_no_record" -> SaveAndReturn(fr, << >>)
         [] OTHER -> fr

RECURSIVE Run(_)
Run(fr) == IF fr.pc = "done" THEN fr ELSE Run(Step(fr))

\* update_inactivity run from its first statement to its end
UpdateInactivity(st, g, t, u) == Run(Frame(st, g, t, u))

\* get_current_record
GetCurrentRecord(st, g) ==
    IF GetRecord(st, g) # None THEN Get(GetRecord(st, g)) ELSE 0

\* variant: a seed never lowers the record
SeedRecordRaiseOnly(st, g, seconds) ==
    [ st  |-> IF GetRecord(st, g) # None /\ Get(GetRecord(st, g)) > seconds
              THEN Touch(st, g) ELSE SetRecord(st, g, seconds),
      end |-> IF StorageSave(st) = "" THEN Returned(<< >>) ELSE Raised(StorageSave(st)) ]

\* seed_record: set_record, then self.storage.save()
SeedRecord(st, g, seconds) ==
    [ st  |-> SetRecord(st, g, seconds),
      end |-> IF StorageSave(st) = "" THEN Returned(<< >>) ELSE Raised(StorageSave(st)) ]

\* clean_stats: its first statement is self.storage.delete_group_data(group_id),
\* and the attribute lookup raises before anything is deleted
CleanStats(st, g) ==
    [ st |-> st, end |-> Raised(Lookup("delete_group_data")) ]

\* ------------------------------------------------------------ ConfigService
IsAnnouncementEnabled(st, g) == GetGroupConfig(st, g).announce_records

\* variant: the toggle only ever disables
ToggleAnnouncementsDisable(st, g) ==
    LET new_state == FALSE
    IN [ st  |-> SetGroupConfig(st, g, [GetGroupConfig(st, g) EXCEPT
                                            !.announce_records = new_state]),
         end |-> Returned(<< new_state >>) ]

\* toggle_announcements
ToggleAnnouncements(st, g) ==
    LET new_state == ~ GetGroupConfig(st, g).announce_records
    IN [ st  |-> SetGroupConfig(st, g, [GetGroupConfig(st, g) EXCEPT
                                            !.announce_records = new_state]),
         end |-> Returned(<< new_state >>) ]

\* ------------------------------------------------------------ handlers
\* The admin_only decorator is not modelled: the commands below are those of a
\* caller it lets through.
HistoryCount(mem) ==
    LET RECURSIVE Sum(_)
        Sum(ks) == IF ks = {} THEN 0
                   ELSE LET k == CHOOSE x \in ks : TRUE
                        IN Len(mem[k].history) + Sum(ks \ {k})
    IN Sum(DOMAIN mem)

Call(op, g, args) == [op |-> op, group |-> g, args |-> args]
Outcome(end, reply) ==
    [raised |-> end.raised, returned |-> end.returned, value |-> end.value, reply |-> reply]

NoLocals ==
    Frame([data |-> EmptyDict, disk |-> EmptyDict, cond |-> "missing"],
          1, 0, [id |-> 1, name |-> "Ann"]).loc

\* a slot of the event loop with no coroutine in it
FreeTask == [pc |-> "free", loc |-> NoLocals, start |-> EmptyDict]

\* main(): JsonStorage(db_path="db.json") with no file yet
Init ==
    /\ data = LoadData("missing", EmptyDict).data
    /\ disk = EmptyDict
    /\ fileState = "missing"
    /\ writable = TRUE
    /\ call = Call("start", 1, << >>)
    /\ outcome = Outcome(Running, "")
    /\ pc = "idle"
    /\ loc = NoLocals
    /\ before = EmptyDict
    /\ tasks = [i \in TaskIds |-> FreeTask]
    /\ running = 0

St == [data |-> data, disk |-> disk, cond |-> fileState]

\* the reply handle_message sends after update_inactivity ended with `end`
Announcement(end, st, g) ==
    IF end.returned /\ end.value # << >> /\ IsAnnouncementEnabled(st, g)
    THEN "new_record" ELSE ""

\* handle_message: update_inactivity, then the announcement when a record was
\* returned and announcements are enabled
HandleMessage(g, t, u) ==
    LET r == UpdateInactivity(St, g, t, u)
    IN /\ pc = "idle"
       /\ HistoryCount(r.st.data) <= MaxHistory
       /\ data' = r.st.data
       /\ disk' = r.st.disk
       /\ fileState' = r.st.cond
       /\ call' = Call("message", g, << t, u >>)
       /\ outcome' = Outcome(r.end, Announcement(r.end, r.st, g))
       /\ UNCHANGED <<writable, pc, loc, before, tasks, running>>

\* record_command
RecordCommand(g) ==
    /\ pc = "idle"
    /\ data' = Touch(St, g).data
    /\ call' = Call("record", g, << >>)
    /\ outcome' = Outcome(Returned(<< GetCurrentRecord(St, g) >>), "record")
    /\ UNCHANGED <<disk, writable, pc, loc, before, fileState, tasks, running>>

\* toggle_announcements_command
ToggleCommand(g) ==
    LET r == ToggleAnnouncements(St, g)
    IN /\ pc = "idle"
       /\ data' = r.st.data
       /\ disk' = r.st.disk
       /\ fileState' = r.st.cond
       /\ call' = Call("toggle", g, << >>)
       /\ outcome' = Outcome(r.end, IF r.end.value[1] THEN "enabled" ELSE "disabled")
       /\ UNCHANGED <<writable, pc, loc, before, tasks, running>>

\* seed_command: minutes <= 0 is answered with "Invalid input"
SeedCommand(g, minutes) ==
    IF minutes <= 0
    THEN /\ pc = "idle"
         /\ call' = Call("seed", g, << minutes >>)
         /\ outcome' = Outcome(Running, "invalid_input")
         /\ UNCHANGED <<data, disk, writable, pc, loc, before, fileState, tasks, running>>
    ELSE LET r == SeedRecord(St, g, minutes * SecondsPerMinute)
         IN /\ pc = "idle"
            /\ data' = r.st.data
            /\ disk' = r.st.disk
            /\ fileState' = r.st.cond
            /\ call' = Call("seed", g, << minutes >>)
            /\ outcome' = Outcome(r.end, IF r.end.returned THEN "seeded" ELSE "")
            /\ UNCHANGED <<writable, pc, loc, before, tasks, running>>

\* clean_command
CleanCommand(g) ==
    LET r == CleanStats(St, g)
    IN /\ pc = "idle"
       /\ data' = r.st.data
       /\ disk' = r.st.disk
       /\ fileState' = r.st.cond
       /\ call' = Call("clean", g, << >>)
       /\ outcome' = Outcome(r.end, IF r.end.returned THEN "cleaned" ELSE "")
       /\ UNCHANGED <<writable, pc, loc, before, tasks, running>>

Next ==
    \/ \E g \in Tracked, t \in Timestamps, u \in Users : HandleMessage(g, t, u)
    \/ \E g \in Tracked : RecordCommand(g)
    \/ \E g \in Tracked : ToggleCommand(g)
    \/ \E g \in Tracked, m \in SeedArgs : SeedCommand(g, m)
    \/ \E g \in Tracked : CleanCommand(g)

Spec == Init /\ [][Next]_vars

\* ------------------------------------------------------------ statement by statement
\* update_inactivity taken one storage statement at a time, with the process
\* killed and started again at any point: the restarted process holds what
\* _load_data reads from the file.
BeginMessage(g, t, u) ==
    /\ pc = "idle"
    /\ HistoryCount(UpdateInactivity(St, g, t, u).st.data) <= MaxHistory
    /\ pc' = "read"
    /\ loc' = Frame(St, g, t, u).loc
    /\ before' = disk
    /\ call' = Call("message", g, << t, u >>)
    /\ outcome' = Outcome(Running, "")
    /\ UNCHANGED <<data, disk, writable, fileState, tasks, running>>

StepMessage ==
    LET fr == Step([st |-> St, pc |-> pc, loc |-> loc, end |-> Running])
    IN /\ pc \notin {"idle", "down"}
       /\ data' = fr.st.data
       /\ disk' = fr.st.disk
       /\ fileState' = fr.st.cond
       /\ pc' = IF fr.pc = "done" THEN "idle" ELSE fr.pc
       /\ loc' = IF fr.pc = "done" THEN NoLocals ELSE fr.loc
       /\ outcome' = IF fr.pc = "done"
                     THEN Outcome(fr.end, Announcement(fr.end, fr.st, loc.group_id))
                     ELSE outcome
       /\ UNCHANGED <<writable, call, before, tasks, running>>

\* the process is killed and main() runs again: JsonStorage.__init__ loads the
\* file; an exception _load_data lets through ends main() ("down")
Restart ==
    LET r == LoadData(fileState, disk)
    IN /\ data' = r.data
       /\ pc' = IF r.raised = "" THEN "idle" ELSE "down"
       /\ loc' = NoLocals
       /\ call' = Call("restart", 1, << >>)
       /\ outcome' = Outcome(IF r.raised = "" THEN Running ELSE Raised(r.raised), "")
       /\ UNCHANGED <<disk, writable, before, fileState, tasks, running>>

NextCrash ==
    \/ \E g \in Tracked, t \in Timestamps, u \in Users : BeginMessage(g, t, u)
    \/ StepMessage
    \/ Restart

SpecCrash == Init /\ [][NextCrash]_vars

\* ------------------------------------------------------------ several groups
\* The handlers for every group of Groups, the read-only commands included.
GroupTimestamps == {0, 60}
GroupUsers == { [id |-> 2, name |-> "Bob"] }
GroupSeedArgs == {0, 1}

\* leaderboard_command
LeaderboardCommand(g) ==
    /\ pc = "idle"
    /\ data' = Touch(St, g).data
    /\ call' = Call("leaderboard", g, << >>)
    /\ outcome' = Outcome(Returned(<< GetLeaderboard(St, g) >>), "leaderboards")
    /\ UNCHANGED <<disk, writable, pc, loc, before, fileState, tasks, running>>

\* history_command
HistoryCommand(g) ==
    /\ pc = "idle"
    /\ data' = Touch(St, g).data
    /\ call' = Call("history", g, << >>)
    /\ outcome' = Outcome(Returned(<< GetHistory(St, g) >>),
                           IF GetHistory(St, g) = << >> THEN "no_history" ELSE "history")
    /\ UNCHANGED <<disk, writable, pc, loc, before, fileState, tasks, running>>

\* config_service.is_announcement_enabled called on its own
AnnouncementQuery(g) ==
    /\ pc = "idle"
    /\ data' = Touch(St, g).data
    /\ call' = Call("enabled", g, << >>)
    /\ outcome' = Outcome(Returned(<< IsAnnouncementEnabled(St, g) >>), "")
    /\ UNCHANGED <<disk, writable, pc, loc, before, fileState, tasks, running>>

NextGroups ==
    \/ \E g \in Groups, t \in GroupTimestamps, u \in GroupUsers : HandleMessage(g, t, u)
    \/ \E g \in Groups : RecordCommand(g)
    \/ \E g \in Groups : LeaderboardCommand(g)
    \/ \E g \in Groups : HistoryCommand(g)
    \/ \E g \in Groups : AnnouncementQuery(g)
    \/ \E g \in Groups : ToggleCommand(g)
    \/ \E g \in Groups, m \in GroupSeedArgs : SeedCommand(g, m)
    \/ \E g \in Groups : CleanCommand(g)

SpecGroups == Init /\ [][NextGroups]_vars

\* ------------------------------------------------------------ event loop
\* Every update gets a handle_message coroutine on the one thread of the event
\* loop.  A coroutine keeps the thread until it reaches an await or ends, and
\* update_inactivity is a plain call with no await in it.

\* the positions of update_inactivity
UpdatePositions ==
    { "read", "set_timestamp", "set_user", "save_first", "compare", "set_record",
      "last_word", "silence_breaker", "history", "save_record", "save_no_record" }

\* variant: every storage call is awaited
AwaitPointsStorage == UpdatePositions \cup {"reply"}

\* the positions at which handle_message awaits: reply_text only
AwaitPoints == {"reply"}

Pending == { j \in TaskIds : tasks[j].pc # "free" }

\* an update arrives and its coroutine is created, not yet run
Deliver(i, g, t, u) ==
    /\ pc = "idle"
    /\ tasks[i].pc = "free"
    /\ HistoryCount(data) + Cardinality(Pending) < MaxHistory
    /\ tasks' = [tasks EXCEPT ![i] = [pc |-> "read", loc |-> Frame(St, g, t, u).loc,
                                       start |-> EmptyDict]]
    /\ UNCHANGED <<data, disk, writable, call, outcome, pc, loc, before, fileState, running>>

\* the event loop gives the thread to a coroutine that is ready
Resume(i) ==
    /\ running = 0
    /\ i \in Pending
    /\ running' = i
    /\ UNCHANGED <<data, disk, writable, call, outcome, pc, loc, before, fileState, tasks>>

\* the running coroutine executes up to its next statement; it gives the thread
\* back at an await and when it ends (by return or by exception)
TaskStep(i) ==
    LET tk == tasks[i]
        fr == Step([st |-> St, pc |-> tk.pc, loc |-> tk.loc, end |-> Running])
        ann == Announcement(fr.end, fr.st, tk.loc.group_id)
        next_pc == CASE tk.pc = "reply" -> "free"
                     [] fr.pc = "done" -> IF ann = "new_record" THEN "reply" ELSE "free"
                     [] OTHER -> fr.pc
    IN /\ running = i
       /\ data' = fr.st.data
       /\ disk' = fr.st.disk
       /\ fileState' = fr.st.cond
       /\ tasks' = [tasks EXCEPT ![i] =
                       IF next_pc = "free" THEN FreeTask
                       ELSE [ pc    |-> next_pc,
                              loc   |-> IF fr.pc = "done" THEN tk.loc ELSE fr.loc,
                              start |-> IF tk.pc = "read" THEN data ELSE tk.start ]]
       /\ running' = IF next_pc \in AwaitPoints \cup {"free"} THEN 0 ELSE i
       /\ call' = IF fr.pc = "done"
                  THEN Call("message", tk.loc.group_id,
                            << tk.loc.current_timestamp, tk.loc.user_info >>)
                  ELSE call
       /\ outcome' = IF fr.pc = "done" THEN Outcome(fr.end, ann) ELSE outcome
       /\ UNCHANGED <<writable, pc, loc, before>>

NextAsync ==
    \/ \E i \in TaskIds, g \in Tracked, t \in Timestamps, u \in Users : Deliver(i, g, t, u)
    \/ \E i \in TaskIds : Resume(i)
    \/ \E i \in TaskIds : TaskStep(i)

SpecAsync == Init /\ [][NextAsync]_vars

\* ------------------------------------------------------------ failing writes
\* The handlers while db.json can stop and start being writable (a full disk, a
\* permission change): open(self.db_path, 'w') then raises IOError.
SetWritable(b) ==
    /\ pc = "idle"
    /\ writable # b
    /\ writable' = b
    /\ call' = Call("disk", 1, << >>)
    /\ outcome' = Outcome(Running, "")
    /\ UNCHANGED <<data, disk, pc, loc, before, fileState, tasks, running>>

NextIO ==
    \/ \E g \in Tracked, t \in GroupTimestamps, u \in Users : HandleMessage(g, t, u)
    \/ \E g \in Tracked : ToggleCommand(g)
    \/ \E g \in Tracked, m \in GroupSeedArgs : SeedCommand(g, m)
    \/ \E b \in BOOLEAN : SetWritable(b)
    \/ Restart

SpecIO == Init /\ [][NextIO]_vars

\* ------------------------------------------------------------ changing names
\* Messages of users who change their display name: user 1 is seen as "Ann" and
\* as "Anna".
NameUsers == { [id |-> 1, name |-> "Ann"],
               [id |-> 1, name |-> "Anna"],
               [id |-> 2, name |-> "Bob"] }

NextNames ==
    \E g \in Tracked, t \in Timestamps, u \in NameUsers : HandleMessage(g, t, u)

SpecNames == Init /\ [][NextNames]_vars

\* ------------------------------------------------------------ start-up
\* The bot is stopped and started again while db.json can be deleted, made
\* unreadable or overwritten with something that is not the program's JSON.
Damage(c) ==
    /\ fileState' = c
    /\ disk' = IF c = "unreadable" THEN disk ELSE EmptyDict
    /\ call' = Call("file", 1, << >>)
    /\ outcome' = Outcome(Running, "")
    /\ UNCHANGED <<data, writable, pc, loc, before, tasks, running>>

NextLoad ==
    \/ \E g \in Tracked, t \in GroupTimestamps, u \in Users : HandleMessage(g, t, u)
    \/ \E g \in Tracked : RecordCommand(g)
    \/ \E c \in FileStates \ {"ok"} : Damage(c)
    \/ Restart

SpecLoad == Init /\ [][NextLoad]_vars

\* ------------------------------------------------------------ tracking only
\* A group that is never seeded and never cleaned: messages, /record and
\* /toggle_announcements.
NextTracking ==
    \/ \E g \in Tracked, t \in Timestamps, u \in Users : HandleMessage(g, t, u)
    \/ \E g \in Tracked : RecordCommand(g)
    \/ \E g \in Tracked : ToggleCommand(g)

SpecTracking == Init /\ [][NextTracking]_vars

\* ------------------------------------------------------------ properties
\* the state of group g as every getter sees it (the defaults when it has no entry)
G(mem, g) == GetGroupData(mem, g)[Str(g)]
Rec(mem, g) == IF G(mem, g).record_seconds = None THEN 0 ELSE Get(G(mem, g).record_seconds)
HadLastMessage(mem, g) ==
    G(mem, g).last_message_timestamp # None /\ G(mem, g).last_user_info # None
UserIds == { u.id : u \in Users }
Boards == { "last_word", "silence_breaker" }

\* the outcomes of processMessage
NoChange(o) == o.returned /\ o.value = << >>
NewRecord(o, seconds, previous) == o.returned /\ o.value = << seconds, previous >>

\* this step is handle_message for group g
MessageStep(g) == call'.op = "message" /\ call'.group = g
\* the interval that step computes
IntervalOf(g) == call'.args[1] - Get(G(data, g).last_message_timestamp)

\* C1: for a group with last-message state and record R, a message with interval
\* I sets the record to I (outcome NewRecord) iff I > R; with I <= R the record
\* is unchanged and the outcome is NoChange.
C1_StrictGreaterRule ==
    [][\A g \in Groups :
         (MessageStep(g) /\ HadLastMessage(data, g)) =>
            IF IntervalOf(g) > Rec(data, g)
            THEN /\ G(data', g).record_seconds = Some(IntervalOf(g))
                 /\ NewRecord(outcome', IntervalOf(g), Get(G(data, g).last_user_info))
            ELSE /\ G(data', g).record_seconds = G(data, g).record_seconds
                 /\ NoChange(outcome')]_vars

\* C2: the first message of a group returns NoChange, leaves record,
\* leaderboards and history as they were and stores its timestamp and user.
C2_FirstMessageNoOp ==
    [][\A g \in Groups :
         (MessageStep(g) /\ ~ HadLastMessage(data, g)) =>
            /\ NoChange(outcome')
            /\ G(data', g).record_seconds = G(data, g).record_seconds
            /\ G(data', g).leaderboards = G(data, g).leaderboards
            /\ G(data', g).history = G(data, g).history
            /\ G(data', g).last_message_timestamp = Some(call'.args[1])
            /\ G(data', g).last_user_info = Some(call'.args[2])]_vars

\* A record was never set: no record-breaking event (the history is empty) and
\* no seed (a seed is at least one minute, so the record is not a seed's).
RecordNeverSet(mem, g) ==
    G(mem, g).history = << >> /\ Rec(mem, g) < SecondsPerMinute

\* C3: record_seconds is absent until a record is set, and the first interval
\* computed for a group whose record was never set becomes the record with
\* outcome NewRecord, whatever its value.
C3_AbsentRecordRule ==
    [][\A g \in Groups :
         (MessageStep(g) /\ HadLastMessage(data, g) /\ RecordNeverSet(data, g)) =>
            /\ G(data, g).record_seconds = None
            /\ G(data', g).record_seconds = Some(IntervalOf(g))
            /\ NewRecord(outcome', IntervalOf(g), Get(G(data, g).last_user_info))]_vars

\* C4: a message never lowers the record getCurrentRecord reports.
C4_MonotonicUnderMessages ==
    [][\A g \in Groups : MessageStep(g) => Rec(data', g) >= Rec(data, g)]_vars

C4_Witness ==
    /\ call.op = "message"
    /\ Len(G(data, 1).history) = 2
    /\ G(data, 1).history[1].record_seconds < G(data, 1).history[2].record_seconds
    /\ Rec(data, 1) = G(data, 1).history[2].record_seconds

\* C5 as stated: no operation other than resetGroup lowers the record.
C5_OnlyResetLowers ==
    [][\A g \in Groups : call'.op # "clean" => Rec(data', g) >= Rec(data, g)]_vars

\* C5 amended: no operation other than resetGroup and seedRecord lowers the
\* record.
C5_OnlyResetOrSeedLowers ==
    [][\A g \in Groups :
         call'.op \notin {"clean", "seed"} => Rec(data', g) >= Rec(data, g)]_vars

\* a seeded record of two minutes that a later message left in place
C5_Witness ==
    /\ call.op = "message"
    /\ Rec(data, 1) = 2 * SecondsPerMinute
    /\ G(data, 1).history = << >>
    /\ HadLastMessage(data, 1)

\* the score board b of group g holds for user id
ScoreOf(mem, g, b, id) == Score(G(mem, g).leaderboards[b], id)
\* that step changed the record of g
RecordBroken(g) == G(data', g).record_seconds # G(data, g).record_seconds
\* the user that step credits on board b
Credited(g, b) ==
    IF b = "last_word" THEN Get(G(data, g).last_user_info).id ELSE call'.args[2].id
\* the entries of a history whose user in role `role` has this id
EntriesOf(h, role, id) == { i \in 1..Len(h) : h[i][role].id = id }

\* C6: a record-breaking message adds exactly 1 to the previous user's
\* last_word score and to the current user's silence_breaker score and changes
\* no other score; any other message changes no score; so a user's
\* silence_breaker score is the number of records that user broke.
C6_LeaderboardTiedToRecords ==
    /\ [][\A g \in Groups : MessageStep(g) =>
            \A b \in Boards, id \in UserIds :
               ScoreOf(data', g, b, id) =
                  ScoreOf(data, g, b, id)
                  + (IF RecordBroken(g) /\ id = Credited(g, b) THEN 1 ELSE 0)]_vars
    /\ [](\A g \in Groups, id \in UserIds :
            ScoreOf(data, g, "silence_breaker", id)
               = Cardinality(EntriesOf(G(data, g).history, "breaker_user", id)))

\* the same user broke two records
C6_Witness ==
    /\ call.op = "message"
    /\ \E id \in UserIds :
          /\ ScoreOf(data, 1, "silence_breaker", id) = 2
          /\ Cardinality(EntriesOf(G(data, 1).history, "breaker_user", id)) = 2

\* C7: a record-breaking message appends one entry (the interval, the previous
\* user, the sender) at the end of the history; every other operation but
\* resetGroup leaves the history as it is.
C7_HistoryAppendOnly ==
    [][\A g \in Groups :
         call'.op # "clean" =>
            G(data', g).history =
               IF MessageStep(g) /\ RecordBroken(g)
               THEN Append(G(data, g).history,
                           [ record_seconds |-> IntervalOf(g),
                             last_user      |-> Get(G(data, g).last_user_info),
                             breaker_user   |-> call'.args[2] ])
               ELSE G(data, g).history]_vars

\* two records in the order they occurred, and a later message that broke none
C7_Witness ==
    /\ call.op = "message"
    /\ Len(G(data, 1).history) = 2
    /\ G(data, 1).history[1].record_seconds = SecondsPerMinute
    /\ G(data, 1).history[2].record_seconds = 2 * SecondsPerMinute
    /\ G(data, 1).last_user_info # Some(G(data, 1).history[2].breaker_user)

\* C8: after resetGroup the record reads 0.0, both leaderboards and the history
\* are empty, announcements are enabled and the last-message state is absent.
C8_ResetClearsEverything ==
    call.op = "clean" =>
       /\ GetCurrentRecord(St, call.group) = 0
       /\ G(data, call.group).leaderboards = DefaultGroupData.leaderboards
       /\ G(data, call.group).history = << >>
       /\ IsAnnouncementEnabled(St, call.group)
       /\ ~ HadLastMessage(data, call.group)

\* C9: after every message the group's last_message_timestamp and last_user
\* are the message's, and a record it set is the message's timestamp minus the
\* timestamp stored before the call, credited to the user stored before it.
C9_TrackingWriteUnconditional ==
    [][\A g \in Groups : MessageStep(g) =>
          /\ G(data', g).last_message_timestamp = Some(call'.args[1])
          /\ G(data', g).last_user_info = Some(call'.args[2])
          /\ RecordBroken(g) =>
                /\ G(data', g).record_seconds = Some(IntervalOf(g))
                /\ ScoreOf(data', g, "last_word", Get(G(data, g).last_user_info).id)
                      = ScoreOf(data, g, "last_word", Get(G(data, g).last_user_info).id) + 1]_vars

\* an out-of-order message (no record) after a record of two minutes
C9_Witness ==
    /\ call.op = "message"
    /\ G(data, 1).last_message_timestamp = Some(0)
    /\ G(data, 1).last_user_info = Some(call.args[2])
    /\ Len(G(data, 1).history) = 1
    /\ Rec(data, 1) = 2 * SecondsPerMinute

\* the running call, run on to its end
Completed == Run([st |-> St, pc |-> pc, loc |-> loc, end |-> Running])

\* C10: a process killed inside a record-breaking update_inactivity restarts
\* either with the file as it was before the call or with every write of the
\* call in it.
C10_AtomicUpdate ==
    [][(/\ call'.op = "restart"
        /\ pc # "idle"
        /\ Len(G(Completed.st.disk, loc.group_id).history)
              > Len(G(before, loc.group_id).history)) =>
          \/ data' = LoadData("ok", before).data
          \/ data' = LoadData("ok", Completed.st.disk).data]_vars

\* this step is seed_command for group g with an accepted argument
SeedStep(g) == call'.op = "seed" /\ call'.group = g /\ call'.args[1] > 0

\* C11: seedRecord(g, s) sets the record of g to exactly s and leaves its
\* last-message timestamp and user, both leaderboards, its history and its
\* config as they were; a message breaks a record (a seeded one included) only
\* when its interval is strictly greater than the record.
C11_SeedBypassesIntervalLogic ==
    [][\A g \in Groups :
         /\ SeedStep(g) =>
               /\ G(data', g).record_seconds = Some(call'.args[1] * SecondsPerMinute)
               /\ G(data', g).last_message_timestamp = G(data, g).last_message_timestamp
               /\ G(data', g).last_user_info = G(data, g).last_user_info
               /\ G(data', g).leaderboards = G(data, g).leaderboards
               /\ G(data', g).history = G(data, g).history
               /\ G(data', g).config = G(data, g).config
               /\ G(disk', g) = G(data', g)
         /\ (MessageStep(g) /\ RecordBroken(g)) =>
               /\ HadLastMessage(data, g)
               /\ IntervalOf(g) > Rec(data, g)]_vars

\* a seed of one minute over a record of two minutes that a message had set,
\* with the history entry and the scores of that record still there
C11_Witness ==
    /\ call.op = "seed"
    /\ call.args = << 1 >>
    /\ Rec(data, 1) = SecondsPerMinute
    /\ Len(G(data, 1).history) = 1
    /\ G(data, 1).history[1].record_seconds = 2 * SecondsPerMinute
    /\ HadLastMessage(data, 1)

\* the storage state after this step
StAfter == [data |-> data', disk |-> disk', cond |-> fileState']

\* C12: toggleAnnouncements(g) returns the negation of what
\* isAnnouncementEnabled(g) returned before it, isAnnouncementEnabled(g) returns
\* that value afterwards (from memory and from the file), and a toggle right
\* after a toggle returns the opposite: from the default, false then true.
C12_ToggleFlipsAndPersists ==
    [][\A g \in Groups :
         (call'.op = "toggle" /\ call'.group = g) =>
            /\ outcome'.returned
            /\ outcome'.value = << ~ IsAnnouncementEnabled(St, g) >>
            /\ IsAnnouncementEnabled(StAfter, g) = outcome'.value[1]
            /\ G(disk', g).config.announce_records = outcome'.value[1]
            /\ G(data, g).config = DefaultGroupData.config => outcome'.value = << FALSE >>
            /\ (call.op = "toggle" /\ call.group = g) =>
                  outcome'.value = << ~ outcome.value[1] >>]_vars

\* a toggle that enabled announcements again after an earlier one disabled them
C12_Witness ==
    /\ call.op = "toggle"
    /\ outcome.value = << TRUE >>
    /\ outcome.reply = "enabled"
    /\ IsAnnouncementEnabled(St, 1)
    /\ G(disk, 1).config.announce_records

\* C13: an operation for one group leaves the record, the last-message state,
\* the leaderboards, the history and the config of every other group as they
\* were, in memory and in the file.
C13_GroupIndependence ==
    [][\A g \in Groups :
         call'.group # g => G(data', g) = G(data, g) /\ G(disk', g) = G(disk, g)]_vars

\* group 1 holds a record, its credits and a disabled config while group 2,
\* which had messages of its own, still has none
C13_Witness ==
    /\ call.group = 1
    /\ Len(G(data, 1).history) = 1
    /\ ~ G(data, 1).config.announce_records
    /\ HadLastMessage(data, 2)
    /\ G(data, 2).history = << >>
    /\ Rec(data, 2) = 0
    /\ G(data, 2).leaderboards = DefaultGroupData.leaderboards
    /\ G(data, 2).config.announce_records

\* coroutine i is between the first and the last statement of update_inactivity
InUpdate(i) == tasks[i].pc \in UpdatePositions \ {"read"}
\* this step is the last statement of coroutine i's update_inactivity
EndsUpdate(i) == tasks[i].pc \in UpdatePositions /\ tasks'[i].pc \notin UpdatePositions
\* update_inactivity of coroutine i run alone on the state its first statement met
Alone(i) ==
    UpdateInactivity([data |-> tasks[i].start, disk |-> tasks[i].start, cond |-> "ok"],
                     tasks[i].loc.group_id, tasks[i].loc.current_timestamp,
                     tasks[i].loc.user_info)

\* C14: however the messages of one group are delivered, no two calls are
\* inside update_inactivity at once, and each call leaves the state and the
\* outcome it would leave run alone on the state it started from: the calls
\* take effect one after the other, in the order they started.
C14_SameGroupSerialization ==
    /\ [](\A i \in TaskIds, j \in TaskIds : (InUpdate(i) /\ InUpdate(j)) => i = j)
    /\ [][\A i \in TaskIds :
            EndsUpdate(i) =>
               /\ data' = Alone(i).st.data
               /\ outcome'.raised = Alone(i).end.raised
               /\ outcome'.returned = Alone(i).end.returned
               /\ outcome'.value = Alone(i).end.value]_vars

\* two messages of group 1 in flight: one call is writing a record while the
\* other, delivered before it, has not started
C14_Witness ==
    /\ tasks[1].pc = "set_record"
    /\ tasks[2].pc = "read"
    /\ tasks[1].loc.group_id = tasks[2].loc.group_id
    /\ running = 1

\* C15: with every read and write of the file succeeding, a message call runs
\* to its end and returns NoChange or NewRecord, never an error, and it never
\* ends in an error after having changed the group's state.
C15_CompletesOrFailsExplicitly ==
    [][\A g \in Groups :
         (MessageStep(g) /\ writable) =>
            /\ \/ NoChange(outcome')
               \/ outcome'.returned /\ Len(outcome'.value) = 2
            /\ outcome'.raised # "" => G(data', g) = G(data, g)]_vars

\* this step is an engine or settings operation that writes the file
WritingStep ==
    \/ call'.op \in {"message", "toggle"}
    \/ call'.op = "seed" /\ call'.args[1] > 0

\* C16: an engine or settings operation whose write of the file fails does not
\* return as if it had succeeded: it reports the failure to its caller.
C16_WriteFailuresSurface ==
    [][(WritingStep /\ ~ writable) => (~ outcome'.returned /\ outcome'.raised # "")]_vars

\* the field of a history entry that holds the user board b credits
RoleOf(b) == IF b = "last_word" THEN "last_user" ELSE "breaker_user"
Latest(S) == CHOOSE i \in S : \A j \in S : j <= i

\* C17 as stated, for the sender of the message just processed: every score
\* entry of the sender's id, on either board, carries the name the sender has
\* in that message, whether or not the message broke a record.
C17_LeaderboardNamesFresh ==
    \A g \in Groups, b \in Boards :
       LET board == G(data, g).leaderboards[b]
           last == G(data, g).last_user_info
       IN (last # None /\ Str(Get(last).id) \in DOMAIN board) =>
             board[Str(Get(last).id)].name = Get(last).name

\* C17 amended: every score entry of a user id on a board carries the name that
\* id had at the most recent record-breaking event that credited it on that
\* board.
C17_NamesAsOfLastCredit ==
    \A g \in Groups, b \in Boards, id \in UserIds :
       LET board == G(data, g).leaderboards[b]
           h == G(data, g).history
           credits == EntriesOf(h, RoleOf(b), id)
       IN Str(id) \in DOMAIN board =>
             /\ credits # {}
             /\ board[Str(id)].name = h[Latest(credits)][RoleOf(b)].name

\* user 1 broke a record as "Ann" and a later one as "Anna", and then sent a
\* message as "Ann" again that broke none
C17_Witness ==
    /\ call.op = "message"
    /\ Len(G(data, 1).history) = 2
    /\ G(data, 1).history[1].breaker_user = [id |-> 1, name |-> "Ann"]
    /\ G(data, 1).history[2].breaker_user = [id |-> 1, name |-> "Anna"]
    /\ G(data, 1).leaderboards.silence_breaker["1"] = [name |-> "Anna", score |-> 2]
    /\ G(data, 1).last_user_info = Some([id |-> 1, name |-> "Ann"])

\* C18: a message that breaks the record returns NewRecord with seconds equal
\* to its timestamp minus the preceding message's timestamp and with the
\* preceding message's sender as previous user; the record afterwards is those
\* seconds and the entry appended to the history carries the same seconds, the
\* same previous user and the sender as breaker.
C18_NewRecordOutcomeContent ==
    [][\A g \in Groups :
         (MessageStep(g) /\ RecordBroken(g)) =>
            LET h == G(data', g).history
            IN /\ NewRecord(outcome', call'.args[1] - Get(G(data, g).last_message_timestamp),
                            Get(G(data, g).last_user_info))
               /\ G(data', g).record_seconds = Some(outcome'.value[1])
               /\ Len(h) = Len(G(data, g).history) + 1
               /\ h[Len(h)] = [ record_seconds |-> outcome'.value[1],
                                last_user      |-> outcome'.value[2],
                                breaker_user   |-> call'.args[2] ]]_vars

\* what the getters see of every group, in memory and in the file
View(st) == [g \in Groups |-> [mem |-> G(st.data, g), file |-> G(st.disk, g)]]
SameResult(a, b) == a.end = b.end /\ View(a.st) = View(b.st)
Queries == { "record", "leaderboard", "history", "enabled" }
\* what a query of a group with no data must return
DefaultAnswer(op) ==
    CASE op = "record" -> << 0 >>
      [] op = "leaderboard" -> << [last_word |-> EmptyDict, silence_breaker |-> EmptyDict] >>
      [] op = "history" -> << << >> >>
      [] OTHER -> << TRUE >>

\* a query of group h changes the result of no operation that follows it
QueryInvisible(h) ==
    LET after == Touch(St, h)
    IN \A g \in Groups :
          /\ \A t \in GroupTimestamps, u \in Users :
                SameResult(UpdateInactivity(after, g, t, u), UpdateInactivity(St, g, t, u))
          /\ \A m \in {1, 2} :
                SameResult(SeedRecord(after, g, m * SecondsPerMinute),
                           SeedRecord(St, g, m * SecondsPerMinute))
          /\ SameResult(ToggleAnnouncements(after, g), ToggleAnnouncements(St, g))
          /\ SameResult(CleanStats(after, g), CleanStats(St, g))
          /\ GetCurrentRecord(after, g) = GetCurrentRecord(St, g)
          /\ GetLeaderboard(after, g) = GetLeaderboard(St, g)
          /\ GetHistory(after, g) = GetHistory(St, g)
          /\ IsAnnouncementEnabled(after, g) = IsAnnouncementEnabled(St, g)

\* C19: getCurrentRecord, getLeaderboards, getHistory and isAnnouncementEnabled
\* return without error, with 0.0, two empty leaderboards, an empty history and
\* true for a group never seen before, and a query changes what no later
\* operation on any group returns or leaves behind.
C19_QueriesAreSideEffectFree ==
    /\ [][call'.op \in Queries =>
             /\ outcome'.returned
             /\ Str(call'.group) \notin DOMAIN data => outcome'.value = DefaultAnswer(call'.op)
             /\ View(StAfter) = View(St)]_vars
    /\ [](\A h \in Groups : QueryInvisible(h))

\* /leaderboard for group 2, never seen before, while group 1 holds a record:
\* the query left an entry for group 2 in memory that is not in the file
C19_Witness ==
    /\ call = Call("leaderboard", 2, << >>)
    /\ outcome.value = DefaultAnswer("leaderboard")
    /\ "2" \in DOMAIN data
    /\ "2" \notin DOMAIN disk
    /\ Len(G(data, 1).history) = 1

\* C20: a start-up that finds db.json missing, unreadable or corrupted raises
\* nothing and starts from a dataset with no groups, so that every group then
\* reads as a fresh group.
C20_LoadRecovery ==
    [][(call'.op = "restart" /\ fileState # "ok") =>
          /\ outcome'.raised = ""
          /\ pc' = "idle"
          /\ data' = EmptyDict
          /\ \A g \in Groups : G(data', g) = DefaultGroupData]_vars

\* the sum of the scores of a board
TotalScore(board) ==
    LET RECURSIVE Sum(_)
        Sum(ks) == IF ks = {} THEN 0
                   ELSE LET k == CHOOSE x \in ks : TRUE
                        IN board[k].score + Sum(ks \ {k})
    IN Sum(DOMAIN board)

\* C21: in every state, for every group, the last_word scores and the
\* silence_breaker scores each add up to the number of history entries, in
\* memory and in the file.
C21_LeaderboardsMatchHistory ==
    \A g \in Groups :
       /\ TotalScore(G(data, g).leaderboards.last_word) = Len(G(data, g).history)
       /\ TotalScore(G(data, g).leaderboards.silence_breaker) = Len(G(data, g).history)
       /\ TotalScore(G(disk, g).leaderboards.last_word) = Len(G(disk, g).history)
       /\ TotalScore(G(disk, g).leaderboards.silence_breaker) = Len(G(disk, g).history)

\* two records, credited to different users on each board, and a seed after them
C21_Witness ==
    /\ call.op = "seed"
    /\ Len(G(data, 1).history) = 2
    /\ Cardinality(DOMAIN G(data, 1).leaderboards.last_word) = 2
    /\ Cardinality(DOMAIN G(data, 1).leaderboards.silence_breaker) = 2
    /\ TotalScore(G(data, 1).leaderboards.last_word) = 2

\* C22: with every accepted seed positive the stored record is never negative,
\* and a message whose interval is zero or negative returns NoChange and leaves
\* the record, the leaderboards and the history as they were.
C22_NonPositiveIntervalsNeverRecord ==
    /\ [](\A g \in Groups :
            G(data, g).record_seconds # None /\ Get(G(data, g).record_seconds) >= 0)
    /\ [][\A g \in Groups :
            (MessageStep(g) /\ HadLastMessage(data, g) /\ IntervalOf(g) <= 0) =>
               /\ NoChange(outcome')
               /\ G(data', g).record_seconds = G(data, g).record_seconds
               /\ G(data', g).leaderboards = G(data, g).leaderboards
               /\ G(data', g).history = G(data, g).history]_vars

\* C23: in a group that is never seeded and never cleaned, the record_seconds
\* of successive history entries strictly increase, and while the history is
\* not empty the record is the record_seconds of its last entry.
C23_HistoryMirrorsRecord ==
    \A g \in Groups :
       LET h == G(data, g).history
       IN /\ \A i \in 1..Len(h), j \in 1..Len(h) :
                i < j => h[i].record_seconds < h[j].record_seconds
          /\ h # << >> => G(data, g).record_seconds = Some(h[Len(h)].record_seconds)

\* records of one and then two minutes, then a message that tied the record
C23_Witness ==
    /\ call.op = "message"
    /\ Len(G(data, 1).history) = 2
    /\ G(data, 1).history[2].record_seconds = 2 * SecondsPerMinute
    /\ call.args[1] - 2 * SecondsPerMinute = 0
    /\ G(data, 1).last_message_timestamp = Some(2 * SecondsPerMinute)
    /\ Rec(data, 1) = 2 * SecondsPerMinute

\* a group's state without its config
Tracking(gd) == [gd EXCEPT !.config = DefaultGroupData.config]
\* the storage state with the announce_records setting of group g negated
Flipped(st, g) ==
    LET flip(mem) == [GetGroupData(mem, g) EXCEPT ![Str(g)].config.announce_records = ~ @]
    IN [st EXCEPT !.data = flip(st.data), !.disk = flip(st.disk)]
\* two results of update_inactivity that differ at most in the config
SameTracking(a, b) ==
    /\ a.end = b.end
    /\ \A g \in Groups :
          /\ Tracking(G(a.st.data, g)) = Tracking(G(b.st.data, g))
          /\ Tracking(G(a.st.disk, g)) = Tracking(G(b.st.disk, g))

\* C24: a message and a seed leave the config as it is, a toggle changes
\* nothing but the config, a message has the same outcome and the same effect
\* on record, last-message state, leaderboards and history whatever the
\* setting is, and a message that breaks the record is announced exactly when
\* announcements are enabled while it is processed.
C24_AnnouncementNonInterference ==
    /\ [][\A g \in Groups :
            /\ (MessageStep(g) \/ SeedStep(g)) => G(data', g).config = G(data, g).config
            /\ (call'.op = "toggle" /\ call'.group = g) =>
                  Tracking(G(data', g)) = Tracking(G(data, g))
            /\ MessageStep(g) =>
                  (outcome'.reply = "new_record"
                      <=> (RecordBroken(g) /\ IsAnnouncementEnabled(St, g)))]_vars
    /\ [](\A g \in Groups, t \in Timestamps, u \in Users :
            SameTracking(UpdateInactivity(St, g, t, u),
                         UpdateInactivity(Flipped(St, g), g, t, u)))

====
